---------------------------- MODULE Spec2Model ----------------------------
(***************************************************************************)
(* Model of the mail-archive ingestion pipeline of outlookwf:              *)
(*   ingest/pst_extract.py  (tagger, header canonicalizer, orchestrator,   *)
(*                           checkpoint store)                             *)
(*   ingest/omx_convert.py  (Outlook-for-Mac XML canonicalizer and walk)   *)
(*   nlp/embeddings.py      (embedding indexer, as far as ingestion uses   *)
(*                           it)                                           *)
(*                                                                         *)
(* Strings are sequences of symbols (a symbol is a word, an address part   *)
(* or a separator); "x in y" of Python is containment of a contiguous      *)
(* subsequence, str.lower() is the symbol-wise map LowerSym.               *)
(*                                                                         *)
(* Five specifications share the module:                                   *)
(*   SpecTag    one call of tag_from_config on a drawn message and config  *)
(*   SpecCanon  one raw item (header message or XML file) canonicalized    *)
(*              and handed to upsert_message                               *)
(*   Spec       main(): runs, kills and restarts over one source root,     *)
(*              one checkpoint file and one store                          *)
(*   SpecWalk   one format reader walking a tree with unreadable and       *)
(*              malformed files                                            *)
(*   SpecEmbed  an EmbeddingIndexer: add, flush, crash and restart         *)
(***************************************************************************)
EXTENDS Integers, Sequences, FiniteSets, TLC

VARIABLES
    \* ---- SpecTag
    tpc,        \* "idle" | "ready" | "done"
    tcfg,       \* the configuration passed to tag_from_config
    tmsg,       \* [sender, recipients, subject, body]
    tout,       \* [primary, partners, tags] returned
    \* ---- SpecCanon
    cpc,        \* "idle" | "ready" | "done"
    craw,       \* the raw item: [kind |-> "hdr", ...] or [kind |-> "xml", ...]
    cparsed,    \* what parse_message_xml returned for an XML item
    cupserts,   \* sequence of records handed to upsert_message
    cerr,       \* the exception process_message raised, None without one
    \* ---- Spec
    src,        \* the source root: what the walks of the input yield
    env,        \* what the machine offers: pypff, readpst, the semantic layer
    ckptFile,   \* the file at the checkpoint path
    tmpFile,    \* the file at the checkpoint path + ".tmp"
    storeC,     \* the store's committed messages: external_id -> id
    storeP,     \* the messages as the run's connection sees them
    pc,         \* "off" (no process) or the position of the running process
    phase,      \* the loop the run is in
    idx,        \* the next item of the loop's walk
    done,       \* the map of processed keys loaded when the loop's function started
    mem,        \* the state dict a function keeps in memory (XML walk, pypff)
    saveNew,    \* the state being serialized by a checkpoint update
    curKey,     \* the key of the item being processed
    curMid,     \* the id upsert_message returned for it
    embBuf,     \* whether the embedding buffer holds vectors
    count,      \* the loop's count of processed items
    outcomes,   \* how each run so far ended
    storeAfter, \* the external_ids the store held after each run
    handed,     \* keys handed to process_message / upsert_message in this run
    skipped,    \* keys passed over in this run
    startCkpt,  \* the checkpoint state as it was when the run started
    lastSave,   \* the file before, and the file meant by, the latest checkpoint update
    killedAt,   \* where the latest kill hit
    \* ---- SpecWalk
    wpc,        \* "idle" | "walk" | "done" | "raised"
    wreader,    \* the format reader that walks the tree
    wfiles,     \* the files of the tree in walk order: [ext, cond]
    widx,       \* the next file of the walk
    wout,       \* the keys of the items yielded (XML: handed to upsert_message) so far
    \* ---- SpecEmbed
    epc,        \* "idle" | "run" (an EmbeddingIndexer lives in a process) | "off"
    estep,      \* position inside flush: "none" | "flush" | "indexed" | "meta"
    eIndexFile, \* the persisted vector index: the message each vector embeds, in order
    eMetaFile,  \* the lines of the .meta.jsonl sidecar: the message id of each line
    eIndexMem,  \* self._index: [loaded, vecs]
    eBuf,       \* self._buffer: the messages buffered
    eNext,      \* the id of the next message handed to add
    eCrashes    \* crashes so far

tagVars == <<tpc, tcfg, tmsg, tout>>
canonVars == <<cpc, craw, cparsed, cupserts, cerr>>
ingestVars == <<src, env, ckptFile, tmpFile, storeC, storeP, pc, phase, idx, done, mem,
                saveNew, curKey, curMid, embBuf, count, outcomes, storeAfter, handed,
                skipped, startCkpt, lastSave, killedAt>>
walkVars == <<wpc, wreader, wfiles, widx, wout>>
embedVars == <<epc, estep, eIndexFile, eMetaFile, eIndexMem, eBuf, eNext, eCrashes>>
vars == <<tagVars, canonVars, ingestVars, walkVars, embedVars>>

None == "None"

\* None where a string (a sequence of symbols) is expected
NoneStr == <<"None">>

\* None where a record is expected
NoRec == [ok |-> FALSE]

\* Python's "not s" for an optional string
Falsy(s) == s = NoneStr \/ s = <<>>

\* the JSON document of the checkpoint file; a missing key reads as empty
EmptyState == [processed |-> <<>>, omx_processed |-> <<>>, external_ids |-> {}]

NoFile == [exists |-> FALSE, valid |-> TRUE, st |-> EmptyState]

\* no item
NoKey == <<"none", 0>>

\* the variables of a specification that is not the one running
IdleIngest ==
    /\ src = None /\ env = None
    /\ ckptFile = NoFile /\ tmpFile = NoFile
    /\ storeC = <<>> /\ storeP = <<>>
    /\ pc = "idle" /\ phase = "none" /\ idx = 0
    /\ done = <<>> /\ mem = EmptyState /\ saveNew = EmptyState
    /\ curKey = NoKey /\ curMid = 0
    /\ embBuf = FALSE /\ count = 0
    /\ outcomes = <<>> /\ storeAfter = <<>>
    /\ handed = {} /\ skipped = {}
    /\ startCkpt = EmptyState
    /\ lastSave = [prior |-> NoFile, new |-> NoFile]
    /\ killedAt = "none"

\* self._index before _ensure_index has run
NoIndex == [loaded |-> FALSE, vecs |-> <<>>]

IdleWalk ==
    /\ wpc = "idle" /\ wreader = None /\ wfiles = <<>> /\ widx = 0 /\ wout = <<>>

IdleEmbed ==
    /\ epc = "idle" /\ estep = "none"
    /\ eIndexFile = <<>> /\ eMetaFile = <<>>
    /\ eIndexMem = NoIndex /\ eBuf = <<>>
    /\ eNext = 0 /\ eCrashes = 0

-----------------------------------------------------------------------------
(* Strings *)

\* str.lower(), symbol by symbol
LowerSym(c) ==
    CASE c = "Acme" -> "acme"
      [] c = "RE" -> "re"
      [] c = "Invoice" -> "invoice"
      [] c = "PartnerCo" -> "partnerco"
      [] c = "Zed" -> "zed"
      [] c = "AP" -> "ap"
      [] c = "ACME.COM" -> "acme.com"
      [] c = "Subject" -> "subject"
      [] c = "Title" -> "title"
      [] c = "Body" -> "body"
      [] c = "Preview" -> "preview"
      [] c = "To" -> "to"
      [] c = "From" -> "from"
      [] c = "DateSent" -> "datesent"
      [] OTHER -> c

Lower(s) == [i \in DOMAIN s |-> LowerSym(s[i])]

\* Python's "needle in hay" for strings
Contains(needle, hay) ==
    \E i \in 0..(Len(hay) - Len(needle)) :
        SubSeq(hay, i + 1, i + Len(needle)) = needle

\* all sequences over S of length at most n
SeqsUpTo(S, n) == UNION {[1..k -> S] : k \in 0..n}

\* any(P(x) for x in seq)
AnyOf(seq, P(_)) == \E i \in DOMAIN seq : P(seq[i])

-----------------------------------------------------------------------------
(* Tagger: tag_from_config *)

\* re.search(pat, subject) for the literal patterns of the modelled configs
ReSearch(pat, subject) == Contains(pat, subject)

\* score of one account (lines 260-266)
Score(acc, sender_email, recipients, text) ==
    LET aliases == [i \in DOMAIN acc.aliases |-> Lower(acc.aliases[i])]
        domains == [i \in DOMAIN acc.domains |-> Lower(acc.domains[i])]
        keywords == [i \in DOMAIN acc.keywords |-> Lower(acc.keywords[i])]
        recips_lower == [i \in DOMAIN recipients |-> Lower(recipients[i])]
        s1 == IF AnyOf(aliases, LAMBDA a : Contains(a, text)) THEN 1 ELSE 0
        s2 == IF AnyOf(keywords, LAMBDA k : Contains(k, text)) THEN 1 ELSE 0
        s3 == IF AnyOf(domains, LAMBDA d : Contains(<<"@">> \o d, Lower(sender_email)))
                 \/ AnyOf(domains, LAMBDA d :
                        AnyOf(recips_lower, LAMBDA r : Contains(<<"@">> \o d, r)))
              THEN 2 ELSE 0
    IN  s1 + s2 + s3

\* the partner scan of one account (lines 270-273): (partners, tags) appended
\* a variant that compares the partner name as configured, not lower-cased
PartnerHitsNoLower(acc, text) ==
    SelectSeq(acc.partners, LAMBDA p : Contains(p, text))

PartnerHits(acc, text) ==
    SelectSeq(acc.partners, LAMBDA p : Contains(Lower(p), text))

PairWith(seq, kind) == [i \in DOMAIN seq |-> <<seq[i], kind>>]

\* a variant of the loop in which every account that reaches score 2 takes the primary
RECURSIVE AccountLoopLastWins(_, _, _, _, _, _)
AccountLoopLastWins(accounts, i, sender_email, recipients, text, acc3) ==
    IF i > Len(accounts) THEN acc3
    ELSE
        LET acc == accounts[i]
            wins == Score(acc, sender_email, recipients, text) >= 2
            hits == PartnerHits(acc, text)
            next3 == [primary |-> IF wins THEN acc.name ELSE acc3.primary,
                      partners |-> acc3.partners \o hits,
                      tags |-> acc3.tags
                               \o (IF wins THEN <<<<acc.name, "account">>>> ELSE <<>>)
                               \o PairWith(hits, "partner")]
        IN  AccountLoopLastWins(accounts, i + 1, sender_email, recipients, text, next3)

\* the loop over accounts (lines 253-273), from account i on
RECURSIVE AccountLoop(_, _, _, _, _, _)
AccountLoop(accounts, i, sender_email, recipients, text, acc3) ==
    IF i > Len(accounts) THEN acc3
    ELSE
        LET acc == accounts[i]
            score == Score(acc, sender_email, recipients, text)
            wins == score >= 2 /\ acc3.primary = None
            hits == PartnerHits(acc, text)
            next3 == [primary |-> IF wins THEN acc.name ELSE acc3.primary,
                      partners |-> acc3.partners \o hits,
                      tags |-> acc3.tags
                               \o (IF wins THEN <<<<acc.name, "account">>>> ELSE <<>>)
                               \o PairWith(hits, "partner")]
        IN  AccountLoop(accounts, i + 1, sender_email, recipients, text, next3)

\* the scored matching part (lines 246-275)
ScoredMatching(cfg, sender_email, recipients, subject, body) ==
    AccountLoop(cfg.accounts, 1, sender_email, recipients,
                Lower(subject \o <<"\n">> \o body),
                [primary |-> None, partners |-> <<>>, tags |-> <<>>])

\* index of the first subject pattern that matches, 0 when none does
\* (lines 240-244: entries lacking a pattern or an account are passed over)
FirstPattern(cfg, subject) ==
    LET hit == {i \in DOMAIN cfg.subject_patterns :
                   /\ cfg.subject_patterns[i].pattern # <<>>
                   /\ cfg.subject_patterns[i].account # None
                   /\ ReSearch(cfg.subject_patterns[i].pattern, subject)}
    IN  IF hit = {} THEN 0 ELSE CHOOSE i \in hit : \A j \in hit : i <= j

OverrideResult(t) == [primary |-> t, partners |-> <<>>, tags |-> <<<<t, "account">>>>]

\* a variant that scores first and consults the overrides only when no account qualifies
tag_from_config_ScoreFirst(cfg, sender_email, recipients, subject, body) ==
    LET sc == ScoredMatching(cfg, sender_email, recipients, subject, body)
        p == FirstPattern(cfg, subject)
    IN  IF sc.primary # None THEN sc
        ELSE IF sender_email \in DOMAIN cfg.addresses
             THEN OverrideResult(cfg.addresses[sender_email])
        ELSE IF p # 0 THEN OverrideResult(cfg.subject_patterns[p].account)
        ELSE sc

tag_from_config(cfg, sender_email, recipients, subject, body) ==
    LET p == FirstPattern(cfg, subject)
    IN  IF sender_email \in DOMAIN cfg.addresses
        THEN OverrideResult(cfg.addresses[sender_email])
        ELSE IF p # 0
        THEN OverrideResult(cfg.subject_patterns[p].account)
        ELSE ScoredMatching(cfg, sender_email, recipients, subject, body)

-----------------------------------------------------------------------------
(* Inputs of SpecTag *)

MaxSubjectLen == 2
MaxBodyLen == 1

AcmeAccount ==
    [name |-> "Acme", aliases |-> <<<<"acme">>>>, domains |-> <<<<"acme.com">>>>,
     keywords |-> <<<<"invoice">>>>, partners |-> <<<<"PartnerCo">>>>]

BetaAccount ==
    [name |-> "Beta", aliases |-> <<<<"beta">>>>, domains |-> <<<<"beta.com">>>>,
     keywords |-> <<<<"pay">>>>, partners |-> <<<<"Zed">>, <<"PartnerCo">>>>]

VipAddress == <<"vip", "@", "x.com">>

\* overrides present; Acme listed first
CfgOverrides ==
    [addresses |-> (VipAddress :> "Beta"),
     subject_patterns |-> <<[pattern |-> <<"RE">>, account |-> "Gamma"],
                            [pattern |-> <<"Invoice">>, account |-> "Beta"]>>,
     accounts |-> <<AcmeAccount, BetaAccount>>]

\* no overrides; Beta listed first
CfgPlain ==
    [addresses |-> <<>>,
     subject_patterns |-> <<>>,
     accounts |-> <<BetaAccount, AcmeAccount>>]

TagConfigs == {CfgOverrides, CfgPlain}

TagSenders == {VipAddress, <<"AP", "@", "ACME.COM">>, <<"bob", "@", "x.com">>}

TagRecipients == {<<>>, <<<<"b", "@", "acme.com">>>>, <<<<"c", "@", "beta.com">>>>}

SubjectWords == {"RE", "Invoice", "Acme"}
BodyWords == {"partnerco", "Zed", "pay"}

TagMessages ==
    [sender : TagSenders, recipients : TagRecipients,
     subject : SeqsUpTo(SubjectWords, MaxSubjectLen),
     body : SeqsUpTo(BodyWords, MaxBodyLen)]

IdleTag == tpc = "idle" /\ tcfg = None /\ tmsg = None /\ tout = None
IdleCanon == cpc = "idle" /\ craw = None /\ cparsed = NoRec /\ cupserts = <<>> /\ cerr = None

InitTag ==
    /\ tpc = "ready"
    /\ tcfg \in TagConfigs
    /\ tmsg \in TagMessages
    /\ tout = None
    /\ IdleCanon /\ IdleIngest /\ IdleWalk /\ IdleEmbed

TagCall ==
    /\ tpc = "ready"
    /\ tout' = tag_from_config(tcfg, tmsg.sender, tmsg.recipients, tmsg.subject, tmsg.body)
    /\ tpc' = "done"
    /\ UNCHANGED <<tcfg, tmsg, canonVars, ingestVars, walkVars, embedVars>>

NextTag == TagCall

SpecTag == InitTag /\ [][NextTag]_vars

\* C6: the primary tag is decided by the exact sender-address override when the
\* sender has one, otherwise by the first subject pattern (in configured order)
\* that matches, whatever the scores of the accounts are.
C6_TaggerPrecedence ==
    tpc = "done" =>
        LET inAddr == tmsg.sender \in DOMAIN tcfg.addresses
            pats == tcfg.subject_patterns
            matching == {i \in DOMAIN pats : Contains(pats[i].pattern, tmsg.subject)}
        IN  /\ inAddr => tout.primary = tcfg.addresses[tmsg.sender]
            /\ (~inAddr /\ matching # {}) =>
                   \E i \in matching :
                       /\ \A j \in matching : i <= j
                       /\ tout.primary = pats[i].account

\* an address override decided the tag although another account scores at least 2
C6_Witness ==
    /\ tpc = "done"
    /\ tmsg.sender \in DOMAIN tcfg.addresses
    /\ tout.primary = tcfg.addresses[tmsg.sender]
    /\ \E i \in DOMAIN tcfg.accounts :
           /\ tcfg.accounts[i].name # tcfg.addresses[tmsg.sender]
           /\ Score(tcfg.accounts[i], tmsg.sender, tmsg.recipients,
                    Lower(tmsg.subject \o <<"\n">> \o tmsg.body)) >= 2

NoOverrideNoPrimary ==
    /\ tpc = "done"
    /\ tmsg.sender \notin DOMAIN tcfg.addresses
    /\ \A i \in DOMAIN tcfg.subject_patterns :
           ~Contains(tcfg.subject_patterns[i].pattern, tmsg.subject)
    /\ \A i \in DOMAIN tcfg.accounts :
           Score(tcfg.accounts[i], tmsg.sender, tmsg.recipients,
                 Lower(tmsg.subject \o <<"\n">> \o tmsg.body)) < 2

\* C7: with no override matching and no account scoring 2, the primary is none and
\* every configured partner whose lower-cased name occurs in the lower-cased
\* subject+body is returned in the partner list and as a (name, "partner") tag.
C7_PartnersWithoutPrimary ==
    NoOverrideNoPrimary =>
        /\ tout.primary = None
        /\ \A i \in DOMAIN tcfg.accounts :
               \A k \in DOMAIN tcfg.accounts[i].partners :
                   LET p == tcfg.accounts[i].partners[k]
                   IN  Contains(Lower(p), Lower(tmsg.subject \o <<"\n">> \o tmsg.body)) =>
                           /\ \E n \in DOMAIN tout.partners : tout.partners[n] = p
                           /\ \E n \in DOMAIN tout.tags : tout.tags[n] = <<p, "partner">>

\* a message without primary that carries a partner tag
C7_Witness ==
    /\ NoOverrideNoPrimary
    /\ tout.primary = None
    /\ \E n \in DOMAIN tout.tags : tout.tags[n] = <<<<"PartnerCo">>, "partner">>

-----------------------------------------------------------------------------
(* Canonicalizer, XML side: omx_convert.py *)

\* str.strip(): leading and trailing whitespace symbols removed
RECURSIVE LStrip(_)
LStrip(s) == IF s # <<>> /\ Head(s) = " " THEN LStrip(Tail(s)) ELSE s

RECURSIVE RStrip(_)
RStrip(s) == IF s # <<>> /\ s[Len(s)] = " " THEN RStrip(SubSeq(s, 1, Len(s) - 1)) ELSE s

Strip(s) == RStrip(LStrip(s))

\* EMAIL_RE on one symbol
IsEmail(t) == t \in {"a@x.com", "b@x.com", "c@x.com", "f@x.com"}

\* EMAIL_RE.findall(v)
FindAllEmails(v) == SelectSeq(v, IsEmail)

\* EMAIL_RE.search(v): the first match, None without one
SearchEmail(v) == IF FindAllEmails(v) = <<>> THEN None ELSE Head(FindAllEmails(v))

\* elem.tag.split('}')[-1].lower()
TagKey(tag) == LowerSym(tag[Len(tag)])

\* flat.setdefault(key, []).append(val): keys kept in insertion order
FlatAppend(flat, key, val) ==
    IF key \in DOMAIN flat.vals
    THEN [flat EXCEPT !.vals[key] = Append(@, val)]
    ELSE [keys |-> Append(flat.keys, key), vals |-> (flat.vals @@ (key :> <<val>>))]

EmptyFlat == [keys |-> <<>>, vals |-> <<>>]

RECURSIVE FlattenFrom(_, _, _)
FlattenFrom(doc, i, flat) ==
    IF i > Len(doc) THEN flat
    ELSE LET key == TagKey(doc[i].tag)
             val == Strip(doc[i].text)
         IN  FlattenFrom(doc, i + 1,
                         IF val = <<>> THEN flat ELSE FlatAppend(flat, key, val))

_flatten_xml(doc) == FlattenFrom(doc, 1, EmptyFlat)

\* flat.get(k): the list under k, empty when the key is absent
FlatGet(flat, k) == IF k \in DOMAIN flat.vals THEN flat.vals[k] ELSE <<>>

RECURSIVE PickFrom(_, _, _)
PickFrom(flat, keys, i) ==
    IF i > Len(keys) THEN NoneStr
    ELSE IF FlatGet(flat, keys[i]) # <<>> THEN FlatGet(flat, keys[i])[1]
    ELSE PickFrom(flat, keys, i + 1)

\* a variant that probes the candidate keys from the last to the first
RECURSIVE PickReversedFrom(_, _, _)
PickReversedFrom(flat, keys, i) ==
    IF i < 1 THEN NoneStr
    ELSE IF FlatGet(flat, keys[i]) # <<>> THEN FlatGet(flat, keys[i])[1]
    ELSE PickReversedFrom(flat, keys, i - 1)

_pick_reversed(flat, keys) == PickReversedFrom(flat, keys, Len(keys))

_pick(flat, keys) == PickFrom(flat, keys, 1)

\* out.extend(EMAIL_RE.findall(v)) over the keys and their values (lines 39-42)
RECURSIVE ExtendVals(_, _)
ExtendVals(vals, i) ==
    IF i > Len(vals) THEN <<>> ELSE FindAllEmails(vals[i]) \o ExtendVals(vals, i + 1)

RECURSIVE ExtendKeys(_, _, _)
ExtendKeys(flat, keys, i) ==
    IF i > Len(keys) THEN <<>>
    ELSE ExtendVals(FlatGet(flat, keys[i]), 1) \o ExtendKeys(flat, keys, i + 1)

\* de-dupe preserving order (lines 44-49)
RECURSIVE Uniq(_, _, _)
Uniq(out, i, uniq) ==
    IF i > Len(out) THEN uniq
    ELSE Uniq(out, i + 1,
              IF \E n \in DOMAIN uniq : uniq[n] = out[i] THEN uniq ELSE Append(uniq, out[i]))

\* the joined string "a;b;c" is kept as the sequence of its parts
_collect_emails(flat, keys) == Uniq(ExtendKeys(flat, keys, 1), 1, <<>>)

SubjectKeys == <<"subject", "mssubject", "itemsubject", "title", "opfmessagecopysubject">>
BodyKeys == <<"body", "textbody", "plaintext", "preview", "bodypreview", "content",
              "opfmessagecopybody">>
SentKeys == <<"datesent", "datetimesent", "sent", "date", "receivedtime",
              "opfmessagecopyreceivedtime", "opfmessagecopysenttime">>
SenderKeys == <<"from", "sender", "fromname", "fromemailaddress",
                "opfmessagecopysenderaddress">>
ToKeys == <<"to", "torecipients", "recipient", "toaddresses", "toemailaddress">>
CcKeys == <<"cc", "ccrecipients", "ccaddresses", "ccemailaddress">>
BccKeys == <<"bcc", "bccrecipients", "bccaddresses", "bccemailaddress">>

\* stage 2 of the sender fallback (lines 69-83): attribute values of emailaddress elements
RECURSIVE AttrScan(_, _)
AttrScan(doc, i) ==
    IF i > Len(doc) THEN None
    ELSE IF TagKey(doc[i].tag) = "emailaddress" /\ SearchEmail(doc[i].attrs) # None
         THEN SearchEmail(doc[i].attrs)
    ELSE AttrScan(doc, i + 1)

\* stage 3 (lines 84-93): the first e-mail in any flattened value, keys in dict order
RECURSIVE FlatScanVals(_, _)
FlatScanVals(vals, i) ==
    IF i > Len(vals) THEN None
    ELSE IF SearchEmail(vals[i]) # None THEN SearchEmail(vals[i])
    ELSE FlatScanVals(vals, i + 1)

RECURSIVE FlatScan(_, _)
FlatScan(flat, i) ==
    IF i > Len(flat.keys) THEN None
    ELSE IF FlatScanVals(flat.vals[flat.keys[i]], 1) # None
         THEN FlatScanVals(flat.vals[flat.keys[i]], 1)
    ELSE FlatScan(flat, i + 1)

\* "x or None" / "x or ''" of a joined or picked string: the empty string is falsy
OrNone(x) == IF Falsy(x) THEN NoneStr ELSE x

\* hashlib.sha1(s).hexdigest(), as an injective function of the hashed string
Sha1(s) == <<"sha1:">> \o s

\* parse_message_xml(path); file.wellformed is whether ET.parse succeeds
parse_message_xml(path, file) ==
    IF ~file.wellformed THEN NoRec
    ELSE
    LET flat == _flatten_xml(file.doc)
        subject == OrNone(_pick(flat, SubjectKeys))
        body == OrNone(_pick(flat, BodyKeys))
        sent == OrNone(_pick(flat, SentKeys))
        picked == _pick(flat, SenderKeys)
        sender_block == IF Falsy(picked) THEN <<>> ELSE picked
        s1 == SearchEmail(sender_block)
        s2 == IF s1 # None THEN s1 ELSE AttrScan(file.doc, 1)
        sender_email == IF s2 # None THEN s2 ELSE FlatScan(flat, 1)
    IN  IF Falsy(subject) /\ Falsy(body) THEN NoRec
        ELSE [ok |-> TRUE,
              external_id |-> Sha1(<<path>> \o (IF Falsy(subject) THEN <<>> ELSE subject)),
              sender_email |-> sender_email,
              recipients_to |-> OrNone(_collect_emails(flat, ToKeys)),
              recipients_cc |-> OrNone(_collect_emails(flat, CcKeys)),
              recipients_bcc |-> OrNone(_collect_emails(flat, BccKeys)),
              subject |-> subject,
              body |-> body,
              sent_at |-> sent,
              received_at |-> sent,
              account_tag |-> None,
              partner_tags |-> <<>>]

\* the record an XML file hands to upsert_message (ingest_outlook_mac_dir, lines
\* 211-219), NoRec when the file is passed over; file.parts is what
\* _collect_body_from_parts returns for the file's directory
OmxRecord(path, file) ==
    LET rec == parse_message_xml(path, file)
    IN  IF ~rec.ok THEN NoRec
        ELSE IF Falsy(rec.body) /\ file.parts # <<>>
             THEN [rec EXCEPT !.body = file.parts]
        ELSE rec

-----------------------------------------------------------------------------
(* Canonicalizer, header side: process_message and its helpers *)

\* make_header(decode_header(s)): RFC 2047 encoded words decoded, symbol by symbol
DecodeSym(c) ==
    CASE c = "=?utf-8?q?S2?=" -> "S2"
      [] OTHER -> c

safe_decode(s) == [i \in DOMAIN s |-> DecodeSym(s[i])]

\* email.utils.parseaddr(x)[1]: the first address of a header value, '' without one
\* (a header value is the sequence of its addresses)
parseaddr(x) == IF x = <<>> THEN <<>> ELSE Head(x)

\* the raw text of an address header, for hashing
RECURSIVE RawHeader(_)
RawHeader(x) == IF x = <<>> THEN <<>> ELSE Head(x) \o <<",">> \o RawHeader(Tail(x))

\* [parseaddr(x)[1] for x in msg.get_all(name, [])]
AddrsOf(values) == [i \in DOMAIN values |-> parseaddr(values[i])]

\* ";".join(parts), kept as the sequence of the parts; join of [] and of [''] are both ''
JoinSemi(parts) == IF parts = <<<<>>>> THEN <<>> ELSE parts

\* "a;b".split(";") of a non-empty joined string
SplitSemi(joined) == joined

\* "\n\n".join(parts)
RECURSIVE JoinParagraphs(_)
JoinParagraphs(parts) ==
    IF parts = <<>> THEN <<>>
    ELSE IF Len(parts) = 1 THEN parts[1]
    ELSE parts[1] \o <<"\n\n">> \o JoinParagraphs(Tail(parts))

\* extract_body(msg)[0]
extract_body(msg) ==
    IF msg.multipart
    THEN LET plain == SelectSeq(msg.parts,
                        LAMBDA part : part.disp # "attachment" /\ part.ctype = "text/plain")
         IN  JoinParagraphs([i \in DOMAIN plain |-> plain[i].text])
    ELSE msg.content

\* iso(parsedate_to_datetime(date_hdr)) for a parsable Date header: a naive datetime is
\* formatted; an aware one reaches dt.astimezone(datetime.utc), where the class
\* datetime has no attribute utc, and the except clause returns None
iso(date) ==
    CASE date = "naive" -> "2024-01-01T09:00:00Z"
      [] date = "aware" -> None
      [] OTHER -> None

\* a variant that keeps the Message-ID as the header gives it
compute_external_id_NoStrip(msg) ==
    IF msg.message_id # <<>> THEN msg.message_id
    ELSE Sha1(RawHeader(msg.from) \o <<msg.date>> \o msg.subject)

\* compute_external_id(msg)
compute_external_id(msg) ==
    IF msg.message_id # <<>> THEN Strip(msg.message_id)
    ELSE Sha1(RawHeader(msg.from) \o <<msg.date>> \o msg.subject)

CanonCfg == CfgOverrides

\* process_message up to the upsert (lines 310-350): the record handed to
\* upsert_message, or the exception raised before it
process_message(cfg, msg) ==
    LET body == extract_body(msg)
        sender == parseaddr(msg.from)
        tos == JoinSemi(AddrsOf(msg.to))
        ccs == JoinSemi(AddrsOf(msg.cc))
        bccs == JoinSemi(AddrsOf(msg.bcc))
        recipients == (IF tos # <<>> THEN SplitSemi(tos) ELSE <<>>)
                      \o (IF ccs # <<>> THEN SplitSemi(ccs) ELSE <<>>)
                      \o (IF bccs # <<>> THEN SplitSemi(bccs) ELSE <<>>)
        subject == safe_decode(msg.subject)
        sent == IF msg.date = "missing" THEN None ELSE iso(msg.date)
        tagged == tag_from_config(cfg, sender, recipients, subject, body)
    IN  IF msg.date = "malformed"
        THEN [ok |-> FALSE, raised |-> "parsedate_to_datetime"]
        ELSE [ok |-> TRUE,
              raised |-> None,
              external_id |-> compute_external_id(msg),
              sender_email |-> sender,
              recipients_to |-> tos,
              recipients_cc |-> ccs,
              recipients_bcc |-> bccs,
              subject |-> subject,
              body |-> body,
              sent_at |-> sent,
              received_at |-> sent,
              account_tag |-> tagged.primary,
              partner_tags |-> tagged.partners]

-----------------------------------------------------------------------------
(* Inputs and actions of SpecCanon *)

MaxElems == 3

AddrA == <<"a", "@", "x.com">>
AddrB == <<"b", "@", "acme.com">>
AddrC == <<"c", "@", "beta.com">>

HdrPayloads ==
    {[multipart |-> FALSE, content |-> <<>>, parts |-> <<>>],
     [multipart |-> FALSE, content |-> <<"pay">>, parts |-> <<>>],
     [multipart |-> TRUE, content |-> <<>>,
      parts |-> <<[ctype |-> "text/plain", disp |-> None, text |-> <<"partnerco">>],
                  [ctype |-> "text/plain", disp |-> "attachment", text |-> <<"Zed">>],
                  [ctype |-> "text/html", disp |-> None, text |-> <<"pay">>]>>]}

HdrInputs ==
    {[kind |-> "hdr", from |-> f, to |-> t, cc |-> c, bcc |-> <<>>, subject |-> s,
      date |-> d, message_id |-> m, multipart |-> p.multipart, content |-> p.content,
      parts |-> p.parts] :
        f \in {<<>>, <<AddrA>>},
        t \in {<<>>, <<<<AddrA>>>>, <<<<AddrA>>, <<AddrA>>>>, <<<<AddrA, AddrB, AddrA, AddrC>>>>,
               <<<<AddrB>>, <<AddrA>>>>},
        c \in {<<>>, <<<<AddrC>>>>},
        s \in {<<>>, <<"Invoice">>, <<"=?utf-8?q?S2?=">>},
        d \in {"missing", "naive", "aware", "malformed"},
        m \in {<<>>, <<" ", "<m1@x>", " ">>},
        p \in HdrPayloads}

XmlElems ==
    {[tag |-> <<"Subject">>, text |-> <<"S1">>, attrs |-> <<>>],
     [tag |-> <<"{ns}", "Title">>, text |-> <<" ", "S2", " ">>, attrs |-> <<>>],
     [tag |-> <<"subject">>, text |-> <<" ">>, attrs |-> <<>>],
     [tag |-> <<"Subject">>, text |-> <<"S3">>, attrs |-> <<>>],
     [tag |-> <<"Preview">>, text |-> <<"B2">>, attrs |-> <<>>],
     [tag |-> <<"Body">>, text |-> <<"B1">>, attrs |-> <<>>],
     [tag |-> <<"To">>, text |-> <<"a@x.com", "w", "b@x.com", "a@x.com">>, attrs |-> <<>>],
     [tag |-> <<"toaddresses">>, text |-> <<"c@x.com", "b@x.com">>, attrs |-> <<>>],
     [tag |-> <<"From">>, text |-> <<"w", "f@x.com">>, attrs |-> <<>>],
     [tag |-> <<"emailAddress">>, text |-> <<>>, attrs |-> <<"c@x.com">>]}

XmlInputs ==
    {[kind |-> "xml", path |-> "m1.xml", wellformed |-> w, doc |-> d, parts |-> p] :
        w \in BOOLEAN, d \in SeqsUpTo(XmlElems, MaxElems), p \in {<<>>, <<"B3">>}}

InitCanon ==
    /\ cpc = "ready"
    /\ \/ craw \in HdrInputs
       \/ craw \in {x \in XmlInputs : x.wellformed \/ (x.doc = <<>> /\ x.parts = <<>>)}
    /\ cparsed = NoRec
    /\ cupserts = <<>>
    /\ cerr = None
    /\ IdleTag /\ IdleIngest /\ IdleWalk /\ IdleEmbed

\* one header-sourced item: process_message (the upsert at line 350)
CanonHeaderItem ==
    /\ cpc = "ready"
    /\ craw.kind = "hdr"
    /\ LET r == process_message(CanonCfg, craw)
       IN  /\ cupserts' = IF r.ok THEN Append(cupserts, r) ELSE cupserts
           /\ cerr' = r.raised
    /\ cpc' = "done"
    /\ UNCHANGED <<craw, cparsed, tagVars, ingestVars, walkVars, embedVars>>

\* one XML file of ingest_outlook_mac_dir's walk (lines 208-219)
CanonXmlItem ==
    /\ cpc = "ready"
    /\ craw.kind = "xml"
    /\ cparsed' = parse_message_xml(craw.path, craw)
    /\ LET rec == OmxRecord(craw.path, craw)
       IN  cupserts' = IF rec.ok THEN Append(cupserts, rec) ELSE cupserts
    /\ cpc' = "done"
    /\ UNCHANGED <<craw, cerr, tagVars, ingestVars, walkVars, embedVars>>

NextCanon == CanonHeaderItem \/ CanonXmlItem

SpecCanon == InitCanon /\ [][NextCanon]_vars

-----------------------------------------------------------------------------
(* Claims on the canonicalizer *)

\* C4: every record handed to upsert_message, header-sourced or XML-sourced, has a
\* non-empty subject or a non-empty body.
C4_ContentPresence ==
    \A n \in DOMAIN cupserts : ~Falsy(cupserts[n].subject) \/ ~Falsy(cupserts[n].body)

\* the addresses of the input in input order: all addresses of all header values
RECURSIVE AllAddresses(_)
AllAddresses(values) ==
    IF values = <<>> THEN <<>> ELSE Head(values) \o AllAddresses(Tail(values))

NoDuplicates(seq) == \A i, j \in DOMAIN seq : seq[i] = seq[j] => i = j

\* the stored list holds every input address once, in the order of first occurrence
FirstSeenOrder(stored, input) ==
    /\ NoDuplicates(stored)
    /\ stored = Uniq(input, 1, <<>>)

\* C8: in every record handed to the store each recipient list holds each address at
\* most once, in the order of its first occurrence in the input.
C8_RecipientDedup ==
    \A n \in DOMAIN cupserts :
        /\ craw.kind = "hdr" =>
               /\ FirstSeenOrder(cupserts[n].recipients_to, AllAddresses(craw.to))
               /\ FirstSeenOrder(cupserts[n].recipients_cc, AllAddresses(craw.cc))
               /\ FirstSeenOrder(cupserts[n].recipients_bcc, AllAddresses(craw.bcc))
        /\ craw.kind = "xml" =>
               /\ cupserts[n].recipients_to # NoneStr => NoDuplicates(cupserts[n].recipients_to)
               /\ cupserts[n].recipients_cc # NoneStr => NoDuplicates(cupserts[n].recipients_cc)
               /\ cupserts[n].recipients_bcc # NoneStr => NoDuplicates(cupserts[n].recipients_bcc)

\* the elements of the document that carry a non-blank text under key k, in document order
Populated(doc, k) == {n \in DOMAIN doc : TagKey(doc[n].tag) = k /\ Strip(doc[n].text) # <<>>}

\* the value the candidate list keys must resolve to on the document
ExpectedPick(doc, keys) ==
    LET cand == {i \in DOMAIN keys : Populated(doc, keys[i]) # {}}
    IN  IF cand = {} THEN NoneStr
        ELSE LET i == CHOOSE x \in cand : \A y \in cand : x <= y
                 n == CHOOSE x \in Populated(doc, keys[i]) :
                          \A y \in Populated(doc, keys[i]) : x <= y
             IN  Strip(doc[n].text)

\* C9: every field an XML record resolves through a candidate list is the first value
\* of the earliest candidate key that is populated, and empty when none is.
C9_OrderedCandidates ==
    (cpc = "done" /\ craw.kind = "xml" /\ cparsed.ok) =>
        /\ cparsed.subject = ExpectedPick(craw.doc, SubjectKeys)
        /\ cparsed.body = ExpectedPick(craw.doc, BodyKeys)
        /\ cparsed.sent_at = ExpectedPick(craw.doc, SentKeys)
        /\ SearchEmail(ExpectedPick(craw.doc, SenderKeys)) # None =>
               cparsed.sender_email = SearchEmail(ExpectedPick(craw.doc, SenderKeys))

\* two candidate keys of the subject are populated and the earlier-listed one won
C9_Witness ==
    /\ cpc = "done" /\ craw.kind = "xml" /\ cparsed.ok
    /\ Populated(craw.doc, "subject") # {}
    /\ Populated(craw.doc, "title") # {}
    /\ Len(craw.doc) >= 2 /\ TagKey(craw.doc[1].tag) = "title"
    /\ cparsed.subject = <<"S1">>

-----------------------------------------------------------------------------
(* Checkpoint store, storage and embedding buffer as the orchestrator uses them *)

MaxItems == 3
MaxRuns == 2

\* the commit interval of ingest_outlook_mac_dir (count % 1000 == 0), scaled down so
\* that a periodic commit happens within MaxItems items
OmxCommitEvery == 2

\* a file opened for writing whose content is not yet completely written
PartialFile == [exists |-> TRUE, valid |-> FALSE, st |-> EmptyState]
FileOf(st) == [exists |-> TRUE, valid |-> TRUE, st |-> st]

\* _load_state(path): {} for a missing file and for one json.load rejects
_load_state(file) == IF file.exists /\ file.valid THEN file.st ELSE EmptyState

\* a variant that reads the map of the XML walk
LoadDoneWrongKey(state) == state.omx_processed

\* done = state.get("processed", {})
LoadDone(state) == state.processed

\* "if done.get(path)": the key is present with a truthy value
IsDone(d, key) == key \in DOMAIN d /\ d[key] # 0

\* st.setdefault("processed", {})[item_key] = message_id
SetProcessed(st, key, mid) ==
    [st EXCEPT !.processed = (key :> mid) @@ @]

\* state.setdefault('omx_processed', {})[path] = mid
SetOmxProcessed(st, key, mid) ==
    [st EXCEPT !.omx_processed = (key :> mid) @@ @]

\* a variant that writes the serialized state to the checkpoint path itself
TmpWriteTargetInPlace == "path"

\* the file the serialized state is written to before os.replace: path + ".tmp"
TmpWriteTarget == "tmp"

\* the id the store gives a new row
NextId(store) ==
    IF DOMAIN store = {} THEN 1
    ELSE 1 + (CHOOSE m \in {store[e] : e \in DOMAIN store} :
                  \A e \in DOMAIN store : store[e] <= m)

\* upsert_message(conn, rec): idempotent on external_id
Upsert(store, eid) ==
    IF eid \in DOMAIN store THEN store ELSE (eid :> NextId(store)) @@ store

-----------------------------------------------------------------------------
(* Source roots and environments of Spec *)

EmlPhases == {"eml", "mbox", "emlx", "readpst"}

\* ics: the calendar files of the tree (of the archive, or of what readpst writes)
ZipSources ==
    {[kind |-> "zip", eml |-> a, mbox |-> b, emlx |-> c, xml |-> d, pst |-> 0, ics |-> e] :
        a \in 0..2, b \in 0..1, c \in 0..1, d \in 0..MaxItems, e \in 0..1}

PstSources ==
    {[kind |-> "pst", eml |-> 0, mbox |-> 0, emlx |-> 0, xml |-> 0, pst |-> n, ics |-> e] :
        n \in 1..MaxItems, e \in 0..1}

\* inputs main cannot take: a path where no file is ("missing"), and a file the
\* "file" tool describes as an OLM export ("olm")
FatalSources ==
    {[kind |-> k, eml |-> 0, mbox |-> 0, emlx |-> 0, xml |-> 0, pst |-> 0, ics |-> 0] :
        k \in {"missing", "olm"}}

Sources ==
    {s \in ZipSources \cup PstSources :
        s.eml + s.mbox + s.emlx + s.xml + s.pst \in 1..MaxItems} \cup FatalSources

\* a variant of the pre-flight check that only tests that the file exists
PreflightExistenceOnly(s) == s.kind = "missing"

\* preflight_source(path) raises: FileNotFoundError, or RuntimeError on "olm" in the
\* output of the file tool
PreflightRaises(s) == s.kind \in {"missing", "olm"}

\* is_zip_archive(path)
is_zip_archive(s) == s.kind = "zip"

\* semantic: "off" (not enabled), "ok", "nomodel" (the embedding model cannot be
\* loaded), "nofaiss" (the model loads, the index library or file is unavailable)
Environments ==
    [pypff : BOOLEAN, readpst : BOOLEAN, semantic : {"off", "ok", "nomodel", "nofaiss"}]

\* number of items the walk of a phase yields
ItemCount(ph) ==
    CASE ph = "eml" -> src.eml
      [] ph = "mbox" -> src.mbox
      [] ph = "emlx" -> src.emlx
      [] ph = "xml" -> src.xml
      [] ph = "pst" -> src.pst
      [] ph = "readpst" -> src.pst
      [] OTHER -> 0

\* the source key of an item: the path, path::msg:<i>, or (pypff) its external_id;
\* readpst writes one EML per message of the PST
ItemKey(ph, i) == <<ph, i>>

\* the external_id of the message an item carries
ExternalId(key) == IF key[1] = "pst" THEN key ELSE <<"msg">> \o key
-----------------------------------------------------------------------------
(* Orchestrator: main() and the ingestion loops *)

Init ==
    /\ src \in Sources
    /\ env \in {e \in Environments :
                   src.kind = "zip" => (~e.pypff /\ ~e.readpst)}
    /\ ckptFile = NoFile /\ tmpFile = NoFile
    /\ storeC = <<>> /\ storeP = <<>>
    /\ pc = "off" /\ phase = "none" /\ idx = 0
    /\ done = <<>> /\ mem = EmptyState /\ saveNew = EmptyState
    /\ curKey = NoKey /\ curMid = 0
    /\ embBuf = FALSE /\ count = 0
    /\ outcomes = <<>> /\ storeAfter = <<>>
    /\ handed = {} /\ skipped = {}
    /\ startCkpt = EmptyState
    /\ lastSave = [prior |-> NoFile, new |-> NoFile]
    /\ killedAt = "none"
    /\ IdleTag /\ IdleCanon /\ IdleWalk /\ IdleEmbed

\* the process ends (return from main, sys.exit, uncaught exception or kill): the
\* connection is gone and with it every change that was not committed
ProcessEnds(outcome, committed) ==
    /\ pc' = "off"
    /\ outcomes' = Append(outcomes, outcome)
    /\ storeC' = committed
    /\ storeP' = committed
    /\ storeAfter' = Append(storeAfter, DOMAIN committed)
    /\ phase' = "none" /\ idx' = 0 /\ done' = <<>> /\ mem' = EmptyState
    /\ saveNew' = EmptyState /\ curKey' = NoKey /\ curMid' = 0
    /\ embBuf' = FALSE /\ count' = 0

RunStarts ==
    /\ pc = "off"
    /\ Len(outcomes) < MaxRuns
    /\ handed' = {} /\ skipped' = {}
    /\ startCkpt' = _load_state(ckptFile)
    /\ killedAt' = "none"
    /\ curKey' = NoKey /\ curMid' = 0 /\ count' = 0 /\ embBuf' = FALSE
    /\ saveNew' = EmptyState
    /\ UNCHANGED <<src, env, ckptFile, tmpFile, storeC, storeP, outcomes, storeAfter,
                   lastSave, tagVars, canonVars, walkVars, embedVars>>

\* main, lines 549-553: a zip archive is unpacked and ingest_from_eml_dir starts
StartZip ==
    /\ RunStarts
    /\ ~PreflightRaises(src) /\ is_zip_archive(src)
    /\ done' = LoadDone(_load_state(ckptFile))
    /\ mem' = EmptyState
    /\ phase' = "eml" /\ idx' = 1 /\ pc' = "loop"

\* main, lines 564-566, and ingest_with_pypff, lines 472-475
StartPypff ==
    /\ RunStarts
    /\ ~PreflightRaises(src) /\ ~is_zip_archive(src) /\ env.pypff
    /\ done' = <<>>
    /\ mem' = [EmptyState EXCEPT !.external_ids = _load_state(ckptFile).external_ids]
    /\ phase' = "pst" /\ idx' = 1 /\ pc' = "loop"

\* main, lines 567-572, and ingest_with_readpst, lines 363-368
StartReadpst ==
    /\ RunStarts
    /\ ~PreflightRaises(src) /\ ~is_zip_archive(src) /\ ~env.pypff /\ env.readpst
    /\ done' = LoadDone(_load_state(ckptFile))
    /\ mem' = EmptyState
    /\ phase' = "readpst" /\ idx' = 1 /\ pc' = "loop"

\* main, lines 534-538: the pre-flight check raises, sys.exit(2)
StartPreflightFails ==
    /\ pc = "off"
    /\ Len(outcomes) < MaxRuns
    /\ PreflightRaises(src)
    /\ ProcessEnds("fatal", storeC)
    /\ handed' = {} /\ skipped' = {}
    /\ startCkpt' = _load_state(ckptFile)
    /\ killedAt' = "none"
    /\ UNCHANGED <<src, env, ckptFile, tmpFile, lastSave, tagVars, canonVars, walkVars,
                   embedVars>>

\* main, lines 568-570: neither pypff nor readpst, sys.exit(2)
StartNoTool ==
    /\ pc = "off"
    /\ Len(outcomes) < MaxRuns
    /\ ~PreflightRaises(src) /\ ~is_zip_archive(src) /\ ~env.pypff /\ ~env.readpst
    /\ ProcessEnds("fatal", storeC)
    /\ handed' = {} /\ skipped' = {}
    /\ startCkpt' = _load_state(ckptFile)
    /\ killedAt' = "none"
    /\ UNCHANGED <<src, env, ckptFile, tmpFile, lastSave, tagVars, canonVars, walkVars, embedVars>>

\* embedder.add(...) under the caller's try/except: without a usable model nothing
\* is buffered; a flush inside add that raises is swallowed and leaves the buffer
BufferAfterAdd ==
    IF env.semantic \in {"ok", "nofaiss"} THEN TRUE ELSE embBuf

\* embedder.flush() raises: the buffer is not empty and _ensure_index fails
FlushRaises == embBuf /\ env.semantic = "nofaiss"

\* a loop of ingest_from_eml_dir / ingest_with_readpst passes over a checkpointed item
HeaderItemSkip ==
    /\ pc = "loop" /\ phase \in EmlPhases /\ idx <= ItemCount(phase)
    /\ IsDone(done, ItemKey(phase, idx))
    /\ skipped' = skipped \cup {ItemKey(phase, idx)}
    /\ idx' = idx + 1
    /\ UNCHANGED <<src, env, ckptFile, tmpFile, storeC, storeP, pc, phase, done, mem,
                   saveNew, curKey, curMid, embBuf, count, outcomes, storeAfter, handed,
                   startCkpt, lastSave, killedAt, tagVars, canonVars, walkVars, embedVars>>

\* process_message and embedder.add for the next item (lines 423-428)
HeaderItemProcess ==
    /\ pc = "loop" /\ phase \in EmlPhases /\ idx <= ItemCount(phase)
    /\ ~IsDone(done, ItemKey(phase, idx))
    /\ LET key == ItemKey(phase, idx)
           store == Upsert(storeP, ExternalId(key))
       IN  /\ storeP' = store
           /\ curKey' = key
           /\ curMid' = store[ExternalId(key)]
           /\ handed' = handed \cup {key}
    /\ embBuf' = BufferAfterAdd
    /\ pc' = "save_open"
    /\ UNCHANGED <<src, env, ckptFile, tmpFile, storeC, phase, idx, done, mem, saveNew,
                   count, outcomes, storeAfter, skipped, startCkpt, lastSave, killedAt,
                   tagVars, canonVars, walkVars, embedVars>>

\* ingest_with_pypff passes over a message whose external_id was seen (lines 479-481)
PypffItemSkip ==
    /\ pc = "loop" /\ phase = "pst" /\ idx <= ItemCount(phase)
    /\ ItemKey(phase, idx) \in mem.external_ids
    /\ skipped' = skipped \cup {ItemKey(phase, idx)}
    /\ idx' = idx + 1
    /\ UNCHANGED <<src, env, ckptFile, tmpFile, storeC, storeP, pc, phase, done, mem,
                   saveNew, curKey, curMid, embBuf, count, outcomes, storeAfter, handed,
                   startCkpt, lastSave, killedAt, tagVars, canonVars, walkVars, embedVars>>

\* ingest_with_pypff processes a message (lines 482-490)
PypffItemProcess ==
    /\ pc = "loop" /\ phase = "pst" /\ idx <= ItemCount(phase)
    /\ ItemKey(phase, idx) \notin mem.external_ids
    /\ LET key == ItemKey(phase, idx)
           store == Upsert(storeP, ExternalId(key))
       IN  /\ storeP' = store
           /\ curKey' = key
           /\ curMid' = store[ExternalId(key)]
           /\ handed' = handed \cup {key}
    /\ embBuf' = BufferAfterAdd
    /\ pc' = "save_open"
    /\ UNCHANGED <<src, env, ckptFile, tmpFile, storeC, phase, idx, done, mem, saveNew,
                   count, outcomes, storeAfter, skipped, startCkpt, lastSave, killedAt,
                   tagVars, canonVars, walkVars, embedVars>>

\* ingest_outlook_mac_dir passes over a checkpointed file (lines 209-210)
OmxItemSkip ==
    /\ pc = "loop" /\ phase = "xml" /\ idx <= ItemCount(phase)
    /\ ItemKey(phase, idx) \in DOMAIN done
    /\ skipped' = skipped \cup {ItemKey(phase, idx)}
    /\ idx' = idx + 1
    /\ UNCHANGED <<src, env, ckptFile, tmpFile, storeC, storeP, pc, phase, done, mem,
                   saveNew, curKey, curMid, embBuf, count, outcomes, storeAfter, handed,
                   startCkpt, lastSave, killedAt, tagVars, canonVars, walkVars, embedVars>>

\* ingest_outlook_mac_dir parses and upserts a file (lines 211-225)
OmxItemProcess ==
    /\ pc = "loop" /\ phase = "xml" /\ idx <= ItemCount(phase)
    /\ ItemKey(phase, idx) \notin DOMAIN done
    /\ LET key == ItemKey(phase, idx)
           store == Upsert(storeP, ExternalId(key))
       IN  /\ storeP' = store
           /\ curKey' = key
           /\ curMid' = store[ExternalId(key)]
           /\ handed' = handed \cup {key}
    /\ pc' = "save_open"
    /\ UNCHANGED <<src, env, ckptFile, tmpFile, storeC, phase, idx, done, mem, saveNew,
                   embBuf, count, outcomes, storeAfter, skipped, startCkpt, lastSave,
                   killedAt, tagVars, canonVars, walkVars, embedVars>>

\* the state a checkpoint update serializes, and the in-memory state it leaves:
\*   _save_progress (lines 510-513) reloads the file and sets processed[key];
\*   ingest_outlook_mac_dir (line 228) sets omx_processed[path] in its own state;
\*   ingest_with_pypff (lines 491-492) writes a state holding only external_ids
NewMem ==
    CASE phase = "xml" -> SetOmxProcessed(mem, curKey, curMid)
      [] phase = "pst" -> [mem EXCEPT !.external_ids = @ \cup {ExternalId(curKey)}]
      [] OTHER -> mem

NewState ==
    CASE phase = "xml" -> NewMem
      [] phase = "pst" -> [EmptyState EXCEPT !.external_ids = NewMem.external_ids]
      [] OTHER -> SetProcessed(_load_state(ckptFile), curKey, curMid)

\* open(tmp, "w"): the target exists and is empty until json.dump has written it
SaveOpen ==
    /\ pc = "save_open"
    /\ mem' = NewMem
    /\ saveNew' = NewState
    /\ lastSave' = [prior |-> ckptFile, new |-> FileOf(NewState)]
    /\ IF TmpWriteTarget = "tmp"
       THEN tmpFile' = PartialFile /\ UNCHANGED ckptFile
       ELSE ckptFile' = PartialFile /\ UNCHANGED tmpFile
    /\ pc' = "save_write"
    /\ UNCHANGED <<src, env, storeC, storeP, phase, idx, done, curKey, curMid, embBuf,
                   count, outcomes, storeAfter, handed, skipped, startCkpt, killedAt,
                   tagVars, canonVars, walkVars, embedVars>>

\* json.dump(st, f) and the close of the file
SaveWrite ==
    /\ pc = "save_write"
    /\ IF TmpWriteTarget = "tmp"
       THEN tmpFile' = FileOf(saveNew) /\ UNCHANGED ckptFile
       ELSE ckptFile' = FileOf(saveNew) /\ UNCHANGED tmpFile
    /\ pc' = "save_replace"
    /\ UNCHANGED <<src, env, storeC, storeP, phase, idx, done, mem, saveNew, curKey,
                   curMid, embBuf, count, outcomes, storeAfter, handed, skipped,
                   startCkpt, lastSave, killedAt, tagVars, canonVars, walkVars, embedVars>>

\* os.replace(tmp, path), then the rest of the loop body: the count and, in the XML
\* walk, the periodic commit (lines 234-239)
SaveReplace ==
    /\ pc = "save_replace"
    /\ IF TmpWriteTarget = "tmp"
       THEN ckptFile' = tmpFile /\ tmpFile' = NoFile
       ELSE UNCHANGED <<ckptFile, tmpFile>>
    /\ count' = count + 1
    /\ storeC' = IF phase = "xml" /\ (count + 1) % OmxCommitEvery = 0 THEN storeP ELSE storeC
    /\ idx' = idx + 1
    /\ pc' = "loop"
    /\ UNCHANGED <<src, env, storeP, phase, done, mem, saveNew, curKey, curMid, embBuf,
                   outcomes, storeAfter, handed, skipped, startCkpt, lastSave, killedAt,
                   tagVars, canonVars, walkVars, embedVars>>

KeepFiles ==
    UNCHANGED <<src, env, ckptFile, tmpFile, lastSave, tagVars, canonVars, walkVars,
                embedVars>>

\* embedder.flush() at the end of a loop raises (lines 382-383, 433-434, 450-451,
\* 467-468, 496-497): nothing catches it and the process ends
PhaseFlushRaises ==
    /\ pc = "loop" /\ phase \in EmlPhases \cup {"pst"} /\ idx > ItemCount(phase)
    /\ FlushRaises
    /\ ProcessEnds("raised:embedder.flush", storeC)
    /\ KeepFiles
    /\ UNCHANGED <<handed, skipped, startCkpt, killedAt>>

\* the end of the EML and of the MBOX loop: flush, commit (lines 433-438, 450-455)
EmlPhaseEnd ==
    /\ pc = "loop" /\ phase \in {"eml", "mbox"} /\ idx > ItemCount(phase)
    /\ ~FlushRaises
    /\ embBuf' = FALSE
    /\ storeC' = storeP
    /\ phase' = IF phase = "eml" THEN "mbox" ELSE "emlx"
    /\ idx' = 1
    /\ UNCHANGED <<src, env, ckptFile, tmpFile, storeP, pc, done, mem, saveNew, curKey,
                   curMid, count, outcomes, storeAfter, handed, skipped, startCkpt,
                   lastSave, killedAt, tagVars, canonVars, walkVars, embedVars>>

\* the end of the EMLX loop: flush and return to main (lines 467-468)
EmlxPhaseEnd ==
    /\ pc = "loop" /\ phase = "emlx" /\ idx > ItemCount(phase)
    /\ ~FlushRaises
    /\ embBuf' = FALSE
    /\ pc' = "count"
    /\ UNCHANGED <<src, env, ckptFile, tmpFile, storeC, storeP, phase, idx, done, mem,
                   saveNew, curKey, curMid, count, outcomes, storeAfter, handed, skipped,
                   startCkpt, lastSave, killedAt, tagVars, canonVars, walkVars, embedVars>>

\* SELECT COUNT(*) FROM messages, as the connection sees it (lines 555-559)
MessageCount == Cardinality(DOMAIN storeP)

\* main, lines 560-562, and ingest_outlook_mac_dir, lines 192-201: no message in the
\* store, the XML walk starts from the checkpoint it loads
MainFallsBackToXml ==
    /\ pc = "count"
    /\ MessageCount = 0
    /\ mem' = _load_state(ckptFile)
    /\ done' = _load_state(ckptFile).omx_processed
    /\ phase' = "xml" /\ idx' = 1 /\ count' = 0
    /\ pc' = "loop"
    /\ UNCHANGED <<src, env, ckptFile, tmpFile, storeC, storeP, saveNew, curKey, curMid,
                   embBuf, outcomes, storeAfter, handed, skipped, startCkpt, lastSave,
                   killedAt, tagVars, canonVars, walkVars, embedVars>>

\* main, lines 560 and 574: the store holds messages, "Ingest completed."
MainCompletesWithoutXml ==
    /\ pc = "count"
    /\ MessageCount # 0
    /\ ProcessEnds("completed", storeC)
    /\ KeepFiles
    /\ UNCHANGED <<handed, skipped, startCkpt, killedAt>>

\* the end of the XML walk: commit, return, "Ingest completed." (lines 240-244, 574)
OmxEnd ==
    /\ pc = "loop" /\ phase = "xml" /\ idx > ItemCount(phase)
    /\ ProcessEnds("completed", storeP)
    /\ KeepFiles
    /\ UNCHANGED <<handed, skipped, startCkpt, killedAt>>

\* the end of ingest_with_pypff: flush, no commit, "Ingest completed." (lines 496-497)
PypffEnd ==
    /\ pc = "loop" /\ phase = "pst" /\ idx > ItemCount(phase)
    /\ ~FlushRaises
    /\ ProcessEnds("completed", storeC)
    /\ KeepFiles
    /\ UNCHANGED <<handed, skipped, startCkpt, killedAt>>

\* the end of the message loop of ingest_with_readpst: flush, commit, then line 391
\* evaluates root_dir, a name the function does not define: NameError
ReadpstEnd ==
    /\ pc = "loop" /\ phase = "readpst" /\ idx > ItemCount(phase)
    /\ ~FlushRaises
    /\ ProcessEnds("raised:NameError", storeP)
    /\ KeepFiles
    /\ UNCHANGED <<handed, skipped, startCkpt, killedAt>>

\* the process is killed while a run is in progress
Kill ==
    /\ pc \in {"loop", "save_open", "save_write", "save_replace", "count"}
    /\ ProcessEnds("killed", storeC)
    /\ killedAt' = pc
    /\ KeepFiles
    /\ UNCHANGED <<handed, skipped, startCkpt>>

\* between two runs pypff becomes importable (main, lines 541-546, then takes the
\* pypff strategy for the same input and the same checkpoint file)
PypffInstalled ==
    /\ pc = "off"
    /\ Len(outcomes) >= 1 /\ Len(outcomes) < MaxRuns
    /\ ~PreflightRaises(src) /\ ~is_zip_archive(src)
    /\ ~env.pypff
    /\ env' = [env EXCEPT !.pypff = TRUE]
    /\ UNCHANGED <<src, ckptFile, tmpFile, storeC, storeP, pc, phase, idx, done, mem,
                   saveNew, curKey, curMid, embBuf, count, outcomes, storeAfter, handed,
                   skipped, startCkpt, lastSave, killedAt, tagVars, canonVars, walkVars,
                   embedVars>>

Next ==
    \/ StartPreflightFails
    \/ StartZip \/ StartPypff \/ StartReadpst \/ StartNoTool
    \/ HeaderItemSkip \/ HeaderItemProcess
    \/ PypffItemSkip \/ PypffItemProcess
    \/ OmxItemSkip \/ OmxItemProcess
    \/ SaveOpen \/ SaveWrite \/ SaveReplace
    \/ PhaseFlushRaises \/ EmlPhaseEnd \/ EmlxPhaseEnd
    \/ MainFallsBackToXml \/ MainCompletesWithoutXml
    \/ OmxEnd \/ PypffEnd \/ ReadpstEnd
    \/ Kill
    \/ PypffInstalled

Spec == Init /\ [][Next]_vars

-----------------------------------------------------------------------------
(* Claims on the orchestrator and the checkpoint store *)

\* C1: two runs in a row that both end "Ingest completed." over the same source root,
\* checkpoint file and store leave the store with the same external_ids (hence the
\* same number of messages) as the first run alone.
C1_Idempotence ==
    (Len(outcomes) >= 2 /\ outcomes[1] = "completed" /\ outcomes[2] = "completed") =>
        storeAfter[2] = storeAfter[1]

\* the keys a checkpoint state holds, over its three maps
CheckpointedKeys(st) ==
    DOMAIN st.processed \cup DOMAIN st.omx_processed \cup st.external_ids

\* C2: an item whose key is in the checkpoint as it was when the run started is never
\* handed to process_message / upsert_message during that run.
C2_SkipRule ==
    \A k \in handed : k \notin CheckpointedKeys(startCkpt)

\* a run passed over a checkpointed item and processed another one
C2_Witness ==
    /\ \E k \in skipped : k \in CheckpointedKeys(startCkpt)
    /\ handed # {}

\* C3: whatever step of a checkpoint update a crash hits, the file at the checkpoint
\* path is complete and is either the file before the update or the new state.
C3_CheckpointAtomic ==
    /\ ckptFile.valid
    /\ ckptFile = lastSave.prior \/ ckptFile = lastSave.new

\* a kill between the write of the temporary file and the rename: the prior
\* checkpoint, which exists, is still in place and the new state sits in the temp file
C3_Witness ==
    /\ pc = "off" /\ killedAt = "save_replace"
    /\ lastSave.prior.exists /\ lastSave.prior # lastSave.new
    /\ ckptFile = lastSave.prior
    /\ tmpFile = lastSave.new

\* C5: for a zip archive whose content is an Outlook-for-Mac XML export, a run that
\* follows a killed run and ends "Ingest completed." has every XML file processed.
C5_Resumable ==
    ( /\ pc = "off"
      /\ src.kind = "zip" /\ src.eml + src.mbox + src.emlx = 0
      /\ Len(outcomes) >= 2
      /\ outcomes[Len(outcomes)] = "completed"
      /\ \E i \in 1..(Len(outcomes) - 1) : outcomes[i] = "killed" ) =>
        \A i \in 1..src.xml :
            ItemKey("xml", i) \in DOMAIN _load_state(ckptFile).omx_processed

\* C10: no run ends because an enrichment step (here the flush of the embedding
\* buffer) failed.
C10_EnrichmentBestEffort ==
    \A i \in DOMAIN outcomes : outcomes[i] # "raised:embedder.flush"

-----------------------------------------------------------------------------
(* Format readers: the directory walks of parse_eml_stream, parse_mbox_stream,    *)
(* parse_emlx_stream, parse_ics_stream and ingest_outlook_mac_dir                 *)

MaxFiles == 3

Readers == {"eml", "mbox", "emlx", "ics", "xml"}

\* a file of the tree: its extension and whether it can be opened and holds what
\* its extension promises
WalkFiles(reader) ==
    [ext : {reader, "other"}, cond : {"ok", "unreadable", "malformed"}]

\* the extension filter of a reader (fn.lower().endswith(...))
Matches(reader, file) == file.ext = reader

\* the body of the try block for one file: whether it raises, and how many items
\* it yields. open() raises on an unreadable file; the email parser accepts any
\* bytes; an mbox or a calendar without a well-formed entry holds no item;
\* ET.parse raises on a malformed document.
ReadItem(reader, file) ==
    CASE file.cond = "unreadable" -> [raised |-> TRUE, items |-> 0]
      [] file.cond = "malformed" /\ reader \in {"eml", "emlx"} -> [raised |-> FALSE, items |-> 1]
      [] file.cond = "malformed" /\ reader \in {"mbox", "ics"} -> [raised |-> FALSE, items |-> 0]
      [] file.cond = "malformed" /\ reader = "xml" -> [raised |-> TRUE, items |-> 0]
      [] OTHER -> [raised |-> FALSE, items |-> 1]

\* a variant in which the exception of an item leaves the walk
OnItemFailureRaise == "raise"

\* "except Exception: continue" (parse_message_xml: return None, then "if not rec: continue")
OnItemFailure == "continue"

InitWalk ==
    /\ wpc = "walk"
    /\ wreader \in Readers
    /\ wfiles \in SeqsUpTo(WalkFiles(wreader), MaxFiles)
    /\ widx = 1
    /\ wout = <<>>
    /\ IdleTag /\ IdleCanon /\ IdleIngest /\ IdleEmbed

\* one file of the walk of the given reader
ReaderStep(reader) ==
    /\ wpc = "walk" /\ wreader = reader /\ widx <= Len(wfiles)
    /\ LET file == wfiles[widx]
           r == ReadItem(reader, file)
       IN  IF ~Matches(reader, file)
           THEN wpc' = wpc /\ wout' = wout /\ widx' = widx + 1
           ELSE IF r.raised
           THEN IF OnItemFailure = "continue"
                THEN wpc' = wpc /\ wout' = wout /\ widx' = widx + 1
                ELSE wpc' = "raised" /\ wout' = wout /\ widx' = widx
           ELSE /\ wpc' = wpc
                /\ wout' = IF r.items = 0 THEN wout ELSE Append(wout, widx)
                /\ widx' = widx + 1
    /\ UNCHANGED <<wreader, wfiles, tagVars, canonVars, ingestVars, embedVars>>

parse_eml_stream == ReaderStep("eml")
parse_mbox_stream == ReaderStep("mbox")
parse_emlx_stream == ReaderStep("emlx")
parse_ics_stream == ReaderStep("ics")
OmxWalkStep == ReaderStep("xml")

\* os.walk is exhausted
WalkEnd ==
    /\ wpc = "walk" /\ widx > Len(wfiles)
    /\ wpc' = "done"
    /\ UNCHANGED <<wreader, wfiles, widx, wout, tagVars, canonVars, ingestVars, embedVars>>

NextWalk ==
    \/ parse_eml_stream \/ parse_mbox_stream \/ parse_emlx_stream \/ parse_ics_stream
    \/ OmxWalkStep \/ WalkEnd

SpecWalk == InitWalk /\ [][NextWalk]_vars

InWalkOut(i) == \E n \in DOMAIN wout : wout[n] = i

\* C11: no file makes a reader's walk raise, and a walk that has ended has yielded
\* every readable, well-formed file of the reader's extension and no unreadable one,
\* wherever in the walk the files that fail are.
C11_WalkSurvivesItemFailures ==
    /\ wpc # "raised"
    /\ wpc = "done" =>
           \A i \in DOMAIN wfiles :
               /\ (Matches(wreader, wfiles[i]) /\ wfiles[i].cond = "ok") => InWalkOut(i)
               /\ wfiles[i].cond = "unreadable" => ~InWalkOut(i)

\* a walk ended after an unreadable file and a malformed XML file were passed over
\* and a later file was yielded
C11_Witness ==
    /\ wpc = "done" /\ wreader = "xml" /\ Len(wfiles) = 3
    /\ wfiles[1] = [ext |-> "xml", cond |-> "unreadable"]
    /\ wfiles[2] = [ext |-> "xml", cond |-> "malformed"]
    /\ wfiles[3] = [ext |-> "xml", cond |-> "ok"]
    /\ wout = <<3>>

\* an input main must refuse: no file, a file identified as an OLM export, or a
\* file that is no archive on a machine with neither pypff nor readpst
FatalInput ==
    \/ src.kind \in {"missing", "olm"}
    \/ (src.kind = "pst" /\ ~env.pypff /\ ~env.readpst)

\* C12: over an input main must refuse, no run ever gets past the start of main (no
\* converter is invoked, no loop is entered), every run ends with the fatal exit, and
\* nothing is upserted and no checkpoint file is written.
C12_FatalBeforeProcessing ==
    FatalInput =>
        /\ pc = "off"
        /\ \A i \in DOMAIN outcomes : outcomes[i] = "fatal"
        /\ handed = {}
        /\ storeP = <<>> /\ storeC = <<>>
        /\ ckptFile = NoFile /\ tmpFile = NoFile

\* a run over a file identified as an OLM export ended with the fatal exit, as did a
\* second one
C12_Witness ==
    /\ src.kind = "olm"
    /\ env.readpst
    /\ outcomes = <<"fatal", "fatal">>
    /\ pc = "off"

\* the XML walk ran in the run that just ended: one of its files was handed on or
\* passed over
XmlPathRan == \E k \in handed \cup skipped : k[1] = "xml"

\* the EML/MBOX/EMLX discovery of the run that just ended yielded a message
DiscoveryYielded == src.eml + src.mbox + src.emlx > 0

\* C13: when a run over an archive with XML message files has completed, the XML walk
\* ran in it exactly when the EML/MBOX/EMLX discovery of that run yielded no message.
C13_XmlFallbackCondition ==
    (pc = "off" /\ src.kind = "zip" /\ src.xml >= 1
       /\ Len(outcomes) >= 1 /\ outcomes[Len(outcomes)] = "completed") =>
        (XmlPathRan <=> ~DiscoveryYielded)

\* the value _save_progress records for a calendar file (line 406)
IcsSentinel == 0 - 1

\* C14: a run over a tree with a calendar file that was neither killed nor refused,
\* on a machine without the semantic layer, ends "Ingest completed." and has recorded
\* the calendar file in the checkpoint with the sentinel (the event was created).
C14_IcsEndToEnd ==
    (pc = "off" /\ src.ics >= 1 /\ env.semantic = "off"
       /\ Len(outcomes) >= 1 /\ outcomes[Len(outcomes)] \notin {"killed", "fatal"}) =>
        /\ outcomes[Len(outcomes)] = "completed"
        /\ LET st == _load_state(ckptFile).processed
           IN  /\ ItemKey("ics", 1) \in DOMAIN st
               /\ st[ItemKey("ics", 1)] = IcsSentinel

\* the stores differ by the rows the connection has not committed
Uncommitted == DOMAIN storeP \ DOMAIN storeC

\* C15: at every point of a run the rows upserted and not yet committed number at most
\* the commit interval, and when the last stream of a strategy has ended (main counts
\* the messages, or the process has ended normally) every upserted row is committed.
C15_BatchCommit ==
    /\ Cardinality(Uncommitted) <= OmxCommitEvery
    /\ pc = "count" => Uncommitted = {}
    /\ (pc = "off" /\ Len(outcomes) >= 1 /\ outcomes[Len(outcomes)] = "completed") =>
           \A k \in handed : ExternalId(k) \in storeAfter[Len(storeAfter)]

-----------------------------------------------------------------------------
(* EmbeddingIndexer: add, flush, and the two files it persists.  A vector is      *)
(* named by the message it embeds.                                                *)

MaxAdds == 3
MaxCrashes == 2

\* the buffer length at which add flushes (len(self._buffer) >= 500), scaled down
EmbFlushAt == 2

InitEmbed ==
    /\ epc = "run" /\ estep = "none"
    /\ eIndexFile = <<>> /\ eMetaFile = <<>>
    /\ eIndexMem = NoIndex /\ eBuf = <<>>
    /\ eNext = 0 /\ eCrashes = 0
    /\ IdleTag /\ IdleCanon /\ IdleIngest /\ IdleWalk

\* _ensure_index(): the index in memory, read from the index file the first time
_ensure_index == IF eIndexMem.loaded THEN eIndexMem ELSE [loaded |-> TRUE, vecs |-> eIndexFile]

\* add(message_id, subject, body): append to the buffer, flush when it is full
EmbedAdd ==
    /\ epc = "run" /\ estep = "none" /\ eNext < MaxAdds
    /\ eNext' = eNext + 1
    /\ eBuf' = Append(eBuf, eNext + 1)
    /\ estep' = IF Len(eBuf) + 1 >= EmbFlushAt THEN "flush" ELSE "none"
    /\ UNCHANGED <<epc, eIndexFile, eMetaFile, eIndexMem, eCrashes,
                   tagVars, canonVars, ingestVars, walkVars>>

\* flush() called at the end of a stream with a buffer that is not empty
EmbedFlushCall ==
    /\ epc = "run" /\ estep = "none" /\ eBuf # <<>>
    /\ estep' = "flush"
    /\ UNCHANGED <<epc, eIndexFile, eMetaFile, eIndexMem, eBuf, eNext, eCrashes,
                   tagVars, canonVars, ingestVars, walkVars>>

\* flush, lines 80-86: self._index.add(mat)
FlushIndexAdd ==
    /\ epc = "run" /\ estep = "flush"
    /\ eIndexMem' = [_ensure_index EXCEPT !.vecs = @ \o eBuf]
    /\ estep' = "indexed"
    /\ UNCHANGED <<epc, eIndexFile, eMetaFile, eBuf, eNext, eCrashes,
                   tagVars, canonVars, ingestVars, walkVars>>

\* flush, lines 88-91: one line per buffered message appended to the sidecar
FlushMetaAppend ==
    /\ epc = "run" /\ estep = "indexed"
    /\ eMetaFile' = eMetaFile \o eBuf
    /\ estep' = "meta"
    /\ UNCHANGED <<epc, eIndexFile, eIndexMem, eBuf, eNext, eCrashes,
                   tagVars, canonVars, ingestVars, walkVars>>

\* flush, lines 93-95: faiss.write_index, buffer.clear()
FlushWriteIndex ==
    /\ epc = "run" /\ estep = "meta"
    /\ eIndexFile' = eIndexMem.vecs
    /\ eBuf' = <<>>
    /\ estep' = "none"
    /\ UNCHANGED <<epc, eMetaFile, eIndexMem, eNext, eCrashes,
                   tagVars, canonVars, ingestVars, walkVars>>

\* the process dies: the buffer and the index in memory are gone, the files stay
EmbedCrash ==
    /\ epc = "run" /\ eCrashes < MaxCrashes
    /\ epc' = "off" /\ estep' = "none"
    /\ eIndexMem' = NoIndex /\ eBuf' = <<>>
    /\ eCrashes' = eCrashes + 1
    /\ UNCHANGED <<eIndexFile, eMetaFile, eNext, tagVars, canonVars, ingestVars, walkVars>>

\* a new process constructs an EmbeddingIndexer on the same index path
EmbedRestart ==
    /\ epc = "off"
    /\ epc' = "run"
    /\ UNCHANGED <<estep, eIndexFile, eMetaFile, eIndexMem, eBuf, eNext, eCrashes,
                   tagVars, canonVars, ingestVars, walkVars>>

NextEmbed ==
    \/ EmbedAdd \/ EmbedFlushCall
    \/ FlushIndexAdd \/ FlushMetaAppend \/ FlushWriteIndex
    \/ EmbedCrash \/ EmbedRestart

SpecEmbed == InitEmbed /\ [][NextEmbed]_vars

\* C16: in every persisted state, crashes and restarts included, the Nth line of the
\* sidecar names the message of the Nth vector of the persisted index (so search maps
\* every persisted vector to its own message id).
C16_SidecarCorrelation ==
    \A n \in DOMAIN eIndexFile :
        n <= Len(eMetaFile) /\ eMetaFile[n] = eIndexFile[n]

-----------------------------------------------------------------------------
(* Claims on the tagger: scoring and the partner scan *)

TagText == Lower(tmsg.subject \o <<"\n">> \o tmsg.body)

NoOverrideMatches ==
    /\ tmsg.sender \notin DOMAIN tcfg.addresses
    /\ \A i \in DOMAIN tcfg.subject_patterns :
           ~Contains(tcfg.subject_patterns[i].pattern, tmsg.subject)

\* the score the rule gives account i of the configuration on the message
RuleScore(i) ==
    LET acc == tcfg.accounts[i]
        addrs == {Lower(tmsg.sender)}
                   \cup {Lower(tmsg.recipients[n]) : n \in DOMAIN tmsg.recipients}
        alias == \E n \in DOMAIN acc.aliases : Contains(Lower(acc.aliases[n]), TagText)
        keyword == \E n \in DOMAIN acc.keywords : Contains(Lower(acc.keywords[n]), TagText)
        domain == \E n \in DOMAIN acc.domains :
                      \E a \in addrs : Contains(<<"@">> \o Lower(acc.domains[n]), a)
    IN  (IF alias THEN 1 ELSE 0) + (IF keyword THEN 1 ELSE 0) + (IF domain THEN 2 ELSE 0)

Qualifying == {i \in DOMAIN tcfg.accounts : RuleScore(i) >= 2}

\* C17: when no override matches, the primary tag is the name of the first account in
\* configured order whose score (alias +1, keyword +1, domain of sender or recipient
\* +2) is at least 2, whatever later accounts score, and none when no account reaches 2.
C17_ScoredMatching ==
    (tpc = "done" /\ NoOverrideMatches) =>
        IF Qualifying = {} THEN tout.primary = None
        ELSE \E i \in Qualifying :
                 /\ \A j \in Qualifying : i <= j
                 /\ tout.primary = tcfg.accounts[i].name

\* the first account qualified with score 2 and a later account scored higher
C17_Witness ==
    /\ tpc = "done" /\ NoOverrideMatches
    /\ Len(tcfg.accounts) = 2
    /\ RuleScore(1) = 2 /\ RuleScore(2) > 2
    /\ tout.primary = tcfg.accounts[1].name

\* the configured partners, over all accounts in configured order, whose lower-cased
\* name occurs in the lower-cased subject+body
RECURSIVE PartnersInText(_)
PartnersInText(i) ==
    IF i > Len(tcfg.accounts) THEN <<>>
    ELSE SelectSeq(tcfg.accounts[i].partners, LAMBDA p : Contains(Lower(p), TagText))
         \o PartnersInText(i + 1)

\* C18: whatever decided the primary tag (address override, subject pattern, scoring
\* or nothing), the partner tags returned are the configured partners whose name
\* occurs, case-insensitively, in subject+body.
C18_PartnerScanUnconditional ==
    tpc = "done" => tout.partners = PartnersInText(1)

-----------------------------------------------------------------------------
(* Claims on the canonicalizer: dates and external_id *)

\* C19: canonicalizing a header message never raises, whatever its Date header is; the
\* record is handed to the store; a missing or malformed Date gives sent_at =
\* received_at = null, a well-formed one gives a timestamp string.
C19_DateTolerance ==
    (cpc = "done" /\ craw.kind = "hdr") =>
        /\ cerr = None
        /\ Len(cupserts) = 1
        /\ craw.date \in {"missing", "malformed"} =>
               (cupserts[1].sent_at = None /\ cupserts[1].received_at = None)
        /\ craw.date \in {"naive", "aware"} =>
               (cupserts[1].sent_at # None /\ cupserts[1].received_at = cupserts[1].sent_at)

\* the Message-ID header without its surrounding blanks
MessageIdText == SelectSeq(craw.message_id, LAMBDA c : c # " ")

\* the external_id the rule gives the raw item whose record is rec
RuleExternalId(rec) ==
    IF craw.kind = "xml"
    THEN <<"sha1:", craw.path>> \o (IF rec.subject = NoneStr THEN <<>> ELSE rec.subject)
    ELSE IF MessageIdText # <<>> THEN MessageIdText
    ELSE <<"sha1:">> \o RawHeader(craw.from) \o <<craw.date>> \o craw.subject

\* C20: the external_id of every record handed to the store is, for a header message,
\* its stripped Message-ID when it has one and otherwise the hash of From+Date+Subject,
\* and for an XML file the hash of path+subject; upserting a second message with the
\* same external_id leaves one row.
C20_ExternalIdDerivation ==
    \A n \in DOMAIN cupserts :
        /\ cupserts[n].external_id = RuleExternalId(cupserts[n])
        /\ DOMAIN Upsert(Upsert(<<>>, cupserts[n].external_id), cupserts[n].external_id)
               = {cupserts[n].external_id}

\* a header message whose Message-ID carries surrounding blanks was stored under the
\* stripped id
C20_Witness ==
    /\ cpc = "done" /\ craw.kind = "hdr"
    /\ craw.message_id = <<" ", "<m1@x>", " ">>
    /\ Len(cupserts) = 1
    /\ cupserts[1].external_id = <<"<m1@x>">>

-----------------------------------------------------------------------------
(* Claims on the checkpoint and the store across kills and strategies *)

\* the keys the durable checkpoint file records together with a message id
DurableKeys ==
    LET st == _load_state(ckptFile)
    IN  {k \in DOMAIN st.processed : st.processed[k] # IcsSentinel}
            \cup DOMAIN st.omx_processed

\* C21: at every point of a run, and after a kill, every key the checkpoint file holds
\* refers to a message that is committed in the store; and in a run that completes
\* after a kill no item is passed over whose message the store does not hold.
C21_NoMessageLostByKill ==
    /\ \A k \in DurableKeys : ExternalId(k) \in DOMAIN storeC
    /\ (pc = "off" /\ Len(outcomes) >= 2 /\ outcomes[Len(outcomes)] = "completed"
          /\ outcomes[Len(outcomes) - 1] = "killed") =>
           \A k \in skipped : ExternalId(k) \in DOMAIN storeC

\* C22: every checkpoint update writes a state that still holds every key of the file
\* it replaces, whichever strategy wrote that file.
C22_CheckpointKeysMonotonic ==
    CheckpointedKeys(_load_state(lastSave.prior))
        \subseteq CheckpointedKeys(_load_state(lastSave.new))

=============================================================================
